---- MODULE Spec2Model ----
(***************************************************************************)
(* A model of the resumable, rate-limited ingestion pipeline of the        *)
(* chatbot: the RateLimiter of rateLimit.js, ChatManager.withRetry and     *)
(* processTextFile / generateEmbedding / checkExistingDocuments of         *)
(* index.js, against a store of chunk records.                             *)
(*                                                                         *)
(* Time is the value of Date.now() in milliseconds since the page was      *)
(* loaded; it advances in steps of TickMs.                                 *)
(***************************************************************************)
EXTENDS Integers, Sequences, FiniteSets, TLC

(* ---------------------------------------------------------------- bounds *)

\* The clock stops after MaxTicks steps of TickMs, once every pending timer has fired.
MaxTicks == 4
\* Calls of waitForToken made by the query path (progressConversation).
MaxCalls == 6
\* withRetry is called with maxRetries in 0 .. MaxRetriesArg.
MaxRetriesArg == 3
\* The document splits into at most MaxChunks chunks.
MaxChunks == 4
\* Failures of the store, the file server and the embedding provider, in all.
MaxFaults == 2
\* Calls of waitForToken the query path makes per page load while a document is ingested.
MaxChatCalls == 1
\* Failures of the embedding provider in a run in which only the provider fails.
MaxProviderFaults == 4

(* ------------------------------------------------------ program constants *)

\* new RateLimiter(3, 60)
maxRequests == 3
timeWindowSeconds == 60
timeWindowMs == timeWindowSeconds * 1000

\* withRetry(operation, maxRetries = 3, initialDelay = 20000)
initialDelay == 20000

\* generateEmbedding
MAX_RETRIES == 3
RATE_LIMIT_RETRY_DELAY == 20000

\* The clock's step: the time in which one token accrues at capacity / window.
TickMs == timeWindowMs \div maxRequests

VARIABLES
    now,        \* Date.now()
    rl,         \* the RateLimiter object: [tokens, lastRefill, queue]
    timers,     \* pending setTimeout callbacks of waitForToken: [call, due]
    calls,      \* the waitForToken calls of the query path, in arrival order
    admitLog,   \* the calls a query-path call let consume a token, in that order
    lastCall,   \* what the most recent waitForToken call of the query path saw
    rt,         \* one call of ChatManager.withRetry
    store,      \* the documents table: the number of records of each chunk index
    totalChunks,\* the number of chunks the splitter makes of scrimba-info.txt
    run,        \* the call of processTextFile of this page load
    faults,     \* the failures injected so far
    prev,       \* how the previous page load's run ended
    other       \* the call of processTextFile of a second page on the same store

limiterVars == <<now, rl, timers, calls, admitLog, lastCall>>
retryVars == <<rt>>
storeVars == <<store, totalChunks, faults, prev, other>>
pipeVars == <<store, totalChunks, run, faults, prev, other>>

MinUncapped(a, b) == b

Min(a, b) == IF a < b THEN a ELSE b

(* ------------------------------------------------------------ RateLimiter *)

NewRateLimiter(t) ==
    [tokens |-> maxRequests, lastRefill |-> t, queue |-> << >>]

\* The closure pushed on the queue, and the promise's resolve function.
Wrapper(c) == [fn |-> "release", call |-> c]
ResolveFn(c) == [fn |-> "resolve", call |-> c]

\* Array.prototype.indexOf, 0-based, -1 when absent.
IndexOf(q, x) ==
    IF \E k \in 1..Len(q) : q[k] = x
    THEN (CHOOSE k \in 1..Len(q) : q[k] = x /\ \A m \in 1..(k - 1) : q[m] # x) - 1
    ELSE -1

\* Array.prototype.splice(index, 1), 0-based.
Splice(q, index) ==
    SubSeq(q, 1, index) \o SubSeq(q, index + 2, Len(q))

QueuePop(q) == [item |-> q[Len(q)], rest |-> SubSeq(q, 1, Len(q) - 1)]

\* queue.shift()
QueueShift(q) == [item |-> Head(q), rest |-> Tail(q)]

TokensToAddContinuous(l, t) ==
    ((t - l.lastRefill) * maxRequests) \div timeWindowMs

\* Math.floor(timePassed / timeWindowMs) * maxRequests
TokensToAdd(l, t) ==
    ((t - l.lastRefill) \div timeWindowMs) * maxRequests

DrainQueueOnce(l) ==
    IF Len(l.queue) > 0 /\ l.tokens > 0
    THEN LET s == QueueShift(l.queue)
         IN  [lim |-> [l EXCEPT !.queue = s.rest, !.tokens = @ - 1],
              released |-> <<s.item.call>>]
    ELSE [lim |-> l, released |-> << >>]

\* while (queue.length > 0 && tokens > 0) { nextRequest = queue.shift(); nextRequest() }
\* where nextRequest() is the wrapper: tokens--, resolve().
RECURSIVE DrainQueue(_)
DrainQueue(l) ==
    IF Len(l.queue) > 0 /\ l.tokens > 0
    THEN LET s == QueueShift(l.queue)
             r == DrainQueue([l EXCEPT !.queue = s.rest, !.tokens = @ - 1])
         IN  [lim |-> r.lim, released |-> <<s.item.call>> \o r.released]
    ELSE [lim |-> l, released |-> << >>]

\* _refillTokens(): the limiter after it, the calls it released (in order) and the
\* token count right after the refill assignment (before any queued release).
RefillTokens(l, t) ==
    LET tokensToAdd == TokensToAdd(l, t) IN
    IF tokensToAdd > 0
    THEN LET filled == [l EXCEPT !.tokens = Min(maxRequests, @ + tokensToAdd),
                                 !.lastRefill = t]
             d == DrainQueue(filled)
         IN  [lim |-> d.lim, released |-> d.released, refilled |-> filled.tokens]
    ELSE [lim |-> l, released |-> << >>, refilled |-> l.tokens]

\* waitForToken() called by c at time t: admitted at once when a token is left after
\* the refill, and otherwise queued behind the waiting callers.
WaitForToken(l, t, c) ==
    LET r == RefillTokens(l, t) IN
    IF r.lim.tokens > 0
    THEN [lim |-> [r.lim EXCEPT !.tokens = @ - 1], released |-> r.released,
          refilled |-> r.refilled, admitted |-> TRUE]
    ELSE [lim |-> [r.lim EXCEPT !.queue = Append(@, Wrapper(c))],
          released |-> r.released, refilled |-> r.refilled, admitted |-> FALSE]

\* The setTimeout callback of call c: it looks for resolve in the queue, which holds
\* the wrapper closures.
TimeoutCallback(l, c) ==
    LET index == IndexOf(l.queue, ResolveFn(c)) IN
    IF index > -1
    THEN [lim |-> [l EXCEPT !.queue = Splice(@, index)], resolved |-> TRUE]
    ELSE [lim |-> l, resolved |-> FALSE]

Range(s) == {s[k] : k \in 1..Len(s)}

(* -------------------------------------------------------- processTextFile *)

\* The waitForToken call of generateEmbedding (there is one at a time), and the
\* setTimeout of its retry delay.
EmbedCall == 0
RetryTimer == -1

Chunks == 0..(MaxChunks - 1)

RECURSIVE SumTo(_, _)
SumTo(st, n) == IF n < 0 THEN 0 ELSE st[n] + SumTo(st, n - 1)

CountIndices(st) == Cardinality({j \in Chunks : st[j] > 0})

\* select('*', {count: 'exact', head: true}): the number of records.
CountRecords(st) == SumTo(st, MaxChunks - 1)

MaxIndexNone(st) == -1

\* order('metadata->chunkIndex', {ascending: false}).limit(1): the largest chunk index
\* that has a record, -1 when there is none.
MaxIndex(st) ==
    IF \E j \in Chunks : st[j] > 0
    THEN CHOOSE j \in Chunks : st[j] > 0 /\ \A m \in Chunks : st[m] > 0 => m <= j
    ELSE -1

CheckExistingDocumentsByCount(st, ok) ==
    IF ok THEN CountRecords(st) ELSE -1

\* checkExistingDocuments(): lastProcessedIndex; a store error is caught and answered
\* with -1.
CheckExistingDocuments(st, ok) ==
    IF ok THEN MaxIndex(st) ELSE -1

\* .eq('metadata->chunkIndex', i).maybeSingle(): data is the row when exactly one row
\* matches, and null when none matches, when several match, and on a store error
\* (the error is not read).
ExistingChunk(st, i, ok) == ok /\ st[i] = 1

IdleRun ==
    [pc |-> "idle", lastProcessedIndex |-> -1, processedCount |-> 0, i |-> 0,
     retryCount |-> 0, events |-> << >>, attempted |-> {}, skipped |-> {},
     committed |-> {}, embedCalls |-> 0, startMax |-> -1, faulty |-> FALSE,
     result |-> "none",
     lookupOk |-> TRUE, countOk |-> TRUE,
     chunk |-> -1, checkOk |-> TRUE, responses |-> << >>, delays |-> << >>]

NoPrev == [finished |-> FALSE, allOk |-> FALSE, attempted |-> 0]

\* The second page before its processTextFile is called.
IdleOther == [pc |-> "idle", lastProcessedIndex |-> -1, i |-> 0, committed |-> {}]

PipeInit ==
    /\ store = [j \in Chunks |-> 0]
    /\ totalChunks \in 0..MaxChunks
    /\ run = IdleRun
    /\ faults = 0
    /\ prev = NoPrev
    /\ other = IdleOther

ResumeRunEarly(r, released) ==
    IF r.pc = "waiting" THEN [r EXCEPT !.pc = "embed"] ELSE r

\* A suspended generateEmbedding goes on when its waitForToken promise resolves.
ResumeRun(r, released) ==
    IF EmbedCall \in Range(released) /\ r.pc = "waiting"
    THEN [r EXCEPT !.pc = "embed"]
    ELSE r

\* The for loop's test: the next chunk, or the final count.
LoopTest(r) ==
    IF r.i < totalChunks THEN [r EXCEPT !.pc = "exists"] ELSE [r EXCEPT !.pc = "verify"]

ChunkErrorRetries(r) ==
    LoopTest([r EXCEPT !.skipped = @ \cup {r.i}])

\* catch (chunkError) { continue }
ChunkError(r) ==
    LoopTest([r EXCEPT !.skipped = @ \cup {r.i}, !.i = @ + 1])

\* new CustomEvent('processingUpdate', ...)
Event(r) ==
    [current |-> r.processedCount, total |-> totalChunks,
     resuming |-> r.lastProcessedIndex >= 0]

\* A failure may be injected while the budget lasts.
Outcomes(oks) == {ok \in oks : ok \/ faults < MaxFaults}
Charge(ok) == IF ok THEN faults ELSE faults + 1
\* The run after a step whose outcome was ok or a failure.
Noted(r, ok) == [r EXCEPT !.faulty = @ \/ ~ok]

\* The query path's calls after `released` were released by a refill.
MarkReleased(cs, released) ==
    [k \in DOMAIN cs |->
        IF k \in Range(released) THEN [cs[k] EXCEPT !.state = "released"] ELSE cs[k]]

\* The admissions `released` (in order) at time t.
Admissions(released, t) ==
    [k \in 1..Len(released) |-> [call |-> released[k], at |-> t]]

NoCall == [elapsed |-> -1, before |-> 0, refilled |-> 0, queued |-> 0, suspended |-> FALSE]

LimiterInit ==
    /\ now = 0
    /\ rl = NewRateLimiter(0)
    /\ timers = {}
    /\ calls = << >>
    /\ admitLog = << >>
    /\ lastCall = NoCall

\* progressConversation: await rateLimiter.waitForToken()
ChatCall(limit) ==
    /\ Len(calls) < limit
    /\ LET c == Len(calls) + 1
           r == WaitForToken(rl, now, c)
       IN  /\ rl' = r.lim
           /\ calls' = Append(MarkReleased(calls, r.released),
                              [state |-> IF r.admitted THEN "admitted" ELSE "suspended",
                               at |-> now])
           /\ admitLog' = admitLog \o Admissions(r.released, now)
                              \o (IF r.admitted THEN <<[call |-> c, at |-> now]>> ELSE << >>)
           /\ timers' = IF r.admitted THEN timers
                        ELSE timers \cup {[call |-> c, due |-> now + timeWindowMs]}
           /\ lastCall' = [elapsed |-> now - rl.lastRefill, before |-> rl.tokens,
                           refilled |-> r.refilled, queued |-> Len(rl.queue),
                           suspended |-> ~r.admitted]
           /\ run' = ResumeRun(run, r.released)
    /\ UNCHANGED <<now, retryVars, storeVars>>

\* A timer of waitForToken fires, timeWindowMs after the call.
TimeoutFire ==
    \E tm \in timers :
        /\ tm.call # RetryTimer
        /\ tm.due <= now
        /\ LET r == TimeoutCallback(rl, tm.call)
           IN  /\ rl' = r.lim
               /\ calls' = IF r.resolved /\ tm.call \in DOMAIN calls
                           THEN [calls EXCEPT ![tm.call].state = "timedOut"]
                           ELSE calls
               /\ run' = IF r.resolved THEN ResumeRun(run, <<tm.call>>) ELSE run
        /\ timers' = timers \ {tm}
        /\ UNCHANGED <<now, admitLog, lastCall, retryVars, storeVars>>

\* Time passes; a timer that is due fires before the clock moves on. The clock stops
\* after MaxTicks steps, once no timer is pending.
Tick ==
    /\ now < MaxTicks * TickMs \/ timers # {}
    /\ \A tm \in timers : tm.due > now
    /\ now' = now + TickMs
    /\ UNCHANGED <<rl, timers, calls, admitLog, lastCall, retryVars, pipeVars>>

(* ------------------------------------------------- ChatManager.withRetry *)

\* What an invocation of the operation ends with: a value (ok) or an error with
\* error.response?.status (-1: no response), whether error.message includes
\* 'Rate limit', and the N of 'try again in Ns' in error.message (-1: no match).
\* n is the number of the invocation: two invocations never end with the same object.
Value(n) == [ok |-> TRUE, n |-> n, status |-> 200, rateText |-> FALSE, hint |-> -1]
Error(n, status, rateText, hint) ==
    [ok |-> FALSE, n |-> n, status |-> status, rateText |-> rateText, hint |-> hint]

\* let lastError (undefined)
NoError == Error(0, -1, FALSE, -1)

\* The errors an invocation may throw.
Errors(n) ==
    { Error(n, 429, FALSE, -1),      \* HTTP 429
      Error(n, -1, TRUE, -1),        \* 'Rate limit ...' in the message
      Error(n, 429, TRUE, 7),        \* 'Rate limit ... try again in 7s'
      Error(n, 500, FALSE, -1),      \* a server error
      Error(n, -1, FALSE, 7) }       \* 'try again in 7s' without 'Rate limit'

IsRateLimitAlways(e) == TRUE

\* error.response?.status === 429 || error.message?.includes('Rate limit')
IsRateLimit(e) == e.status = 429 \/ e.rateText

WaitTimeFixed(e, i) == initialDelay

\* waitMatch ? parseInt(waitMatch[1]) * 1000 : initialDelay * Math.pow(2, i)
WaitTime(e, i) ==
    IF e.hint >= 0 THEN e.hint * 1000 ELSE initialDelay * (2 ^ i)

LoopContinuesOffByOne(i, maxRetries) == i <= maxRetries

\* for (let i = 0; i < maxRetries; i++)
LoopContinues(i, maxRetries) == i < maxRetries

RetryIdle ==
    [pc |-> "idle", maxRetries |-> 0, i |-> 0, lastError |-> NoError,
     invoked |-> << >>, delays |-> << >>, inflight |-> 0, outcome |-> NoError]

RetryInit == rt = RetryIdle

\* The head of the for loop: the next invocation, or `throw lastError` after the loop.
LoopHead(r) ==
    IF LoopContinues(r.i, r.maxRetries)
    THEN [r EXCEPT !.pc = "call"]
    ELSE [r EXCEPT !.pc = "thrown", !.outcome = r.lastError]

\* withRetry(operation, maxRetries) is called.
RetryCall ==
    /\ rt.pc = "idle"
    /\ \E m \in 0..MaxRetriesArg :
           rt' = LoopHead([RetryIdle EXCEPT !.maxRetries = m])
    /\ UNCHANGED <<limiterVars, pipeVars>>

\* await operation(): the operation is invoked.
RetryInvoke ==
    /\ rt.pc = "call"
    /\ rt' = [rt EXCEPT !.pc = "awaiting", !.inflight = @ + 1]
    /\ UNCHANGED <<limiterVars, pipeVars>>

\* The operation returns: withRetry returns its value.
OperationReturns ==
    /\ rt.pc = "awaiting"
    /\ LET v == Value(Len(rt.invoked) + 1)
       IN  rt' = [rt EXCEPT !.pc = "returned", !.inflight = @ - 1,
                            !.invoked = Append(@, v), !.outcome = v]
    /\ UNCHANGED <<limiterVars, pipeVars>>

\* The operation throws: a rate-limit error starts the delay, another error is rethrown.
OperationThrows ==
    /\ rt.pc = "awaiting"
    /\ \E e \in Errors(Len(rt.invoked) + 1) :
           LET caught == [rt EXCEPT !.inflight = @ - 1, !.invoked = Append(@, e),
                                    !.lastError = e]
           IN  rt' = IF IsRateLimit(e)
                     THEN [caught EXCEPT !.pc = "delay",
                                         !.delays = Append(@, WaitTime(e, rt.i))]
                     ELSE [caught EXCEPT !.pc = "thrown", !.outcome = e]
    /\ UNCHANGED <<limiterVars, pipeVars>>

\* await this.delay(waitTime) ends; continue: i++ and the loop test.
DelayEnds ==
    /\ rt.pc = "delay"
    /\ rt' = LoopHead([rt EXCEPT !.i = @ + 1])
    /\ UNCHANGED <<limiterVars, pipeVars>>

\* The caller has the outcome; withRetry may be called again.
RetryDone ==
    /\ rt.pc \in {"returned", "thrown"}
    /\ rt' = RetryIdle
    /\ UNCHANGED <<limiterVars, pipeVars>>

RetryNext ==
    \/ RetryCall
    \/ RetryInvoke
    \/ OperationReturns
    \/ OperationThrows
    \/ DelayEnds
    \/ RetryDone


(* ------------------------------------------- the steps of processTextFile *)

\* initialize() calls processTextFile(): let processedCount = 0.
StartRun ==
    /\ run.pc = "idle"
    /\ run' = [IdleRun EXCEPT !.pc = "lookup", !.startMax = MaxIndex(store)]
    /\ UNCHANGED <<limiterVars, retryVars, storeVars>>

\* initialize(), on page load: the progress lookup; when the store has documents, the
\* fetch and the split of the document for expectedChunks; then the announcement
\* 'All documents processed. Ready for questions!' without a call of
\* processTextFile when lastProcessedIndex + 1 === expectedChunks, and the call of
\* processTextFile otherwise. A fetch that fails ends initialize in its catch.
Initialize(oks) ==
    /\ run.pc = "idle"
    /\ \E okLookup \in Outcomes(oks) :
           LET lastProcessedIndex == CheckExistingDocuments(store, okLookup)
               hasDocuments == lastProcessedIndex >= 0
               charged == Charge(okLookup)
               call == [IdleRun EXCEPT !.pc = "lookup", !.startMax = MaxIndex(store)]
           IN  IF hasDocuments /\ lastProcessedIndex >= 0
               THEN \E okFetch \in {ok \in oks : ok \/ charged < MaxFaults} :
                        /\ faults' = IF okFetch THEN charged ELSE charged + 1
                        /\ run' = IF ~okFetch
                                  THEN [IdleRun EXCEPT !.pc = "initError"]
                                  ELSE IF lastProcessedIndex + 1 = totalChunks
                                  THEN [IdleRun EXCEPT !.pc = "ready"]
                                  ELSE call
               ELSE /\ faults' = charged
                    /\ run' = call
    /\ UNCHANGED <<limiterVars, retryVars, store, totalChunks, prev, other>>

\* const { lastProcessedIndex } = await checkExistingDocuments()
Lookup(oks) ==
    /\ run.pc = "lookup"
    /\ \E ok \in Outcomes(oks) :
           /\ run' = Noted([run EXCEPT !.pc = "fetch", !.lookupOk = ok,
                                 !.lastProcessedIndex = CheckExistingDocuments(store, ok)],
                            ok)
           /\ faults' = Charge(ok)
    /\ UNCHANGED <<limiterVars, retryVars, store, totalChunks, prev, other>>

\* fetch('./scrimba-info.txt'), the split, processedCount, the first progress event
\* and the loop's start; a response that is not ok throws out of processTextFile.
Fetch(oks) ==
    /\ run.pc = "fetch"
    /\ \E ok \in Outcomes(oks) :
           /\ run' = IF ok
                     THEN LET r == [run EXCEPT
                                      !.processedCount =
                                          IF run.lastProcessedIndex >= 0
                                          THEN run.lastProcessedIndex + 1 ELSE 0,
                                      !.i = run.lastProcessedIndex + 1]
                          IN  LoopTest([r EXCEPT !.events = <<Event(r)>>])
                     ELSE [run EXCEPT !.pc = "failed", !.faulty = TRUE]
           /\ faults' = Charge(ok)
    /\ UNCHANGED <<limiterVars, retryVars, store, totalChunks, prev, other>>

\* The 2 s pause between chunks and the existence check of chunk i: an existing
\* chunk is counted and skipped, and otherwise generateEmbedding(text, 0) starts.
ExistenceCheck(oks) ==
    /\ run.pc = "exists"
    /\ \E ok \in Outcomes(oks) :
           /\ run' = LET r == Noted([run EXCEPT !.attempted = @ \cup {run.i},
                                                  !.chunk = run.i, !.checkOk = ok,
                                                  !.responses = << >>, !.delays = << >>],
                                       ok)
                     IN  IF ExistingChunk(store, run.i, ok)
                         THEN LoopTest([r EXCEPT !.processedCount = @ + 1, !.i = @ + 1])
                         ELSE [r EXCEPT !.pc = "token", !.retryCount = 0]
           /\ faults' = Charge(ok)
    /\ UNCHANGED <<limiterVars, retryVars, store, totalChunks, prev, other>>

\* generateEmbedding: await rateLimiter.waitForToken()
AcquireToken ==
    /\ run.pc = "token"
    /\ LET r == WaitForToken(rl, now, EmbedCall)
       IN  /\ rl' = r.lim
           /\ calls' = MarkReleased(calls, r.released)
           /\ timers' = IF r.admitted THEN timers
                        ELSE timers \cup {[call |-> EmbedCall, due |-> now + timeWindowMs]}
           /\ run' = [run EXCEPT !.pc = IF r.admitted THEN "embed" ELSE "waiting"]
    /\ UNCHANGED <<now, admitLog, lastCall, retryVars, storeVars>>

\* response.status === 429: the provider's rate-limit answer, with ("429h") or without
\* ("429") a suggested wait ('Please try again in 7s') in its body.
Status429(resp) == resp \in {"429", "429h"}

RetryAllowedOnce(retryCount) == retryCount < 1

\* retryCount < MAX_RETRIES
RetryAllowed(retryCount) == retryCount < MAX_RETRIES

\* The delay before generateEmbedding(text, retryCount + 1): RATE_LIMIT_RETRY_DELAY,
\* whatever the retry's number and whatever the response's body (errorData) says.
RetryDelay(resp, retryCount) == RATE_LIMIT_RETRY_DELAY

\* generateEmbedding: the POST to the embedding provider and its response: the
\* embedding, a 429 that is retried after RATE_LIMIT_RETRY_DELAY while
\* retryCount < MAX_RETRIES, or an error that is thrown to the chunk's catch.
Embed(responses, maxFaults) ==
    /\ run.pc = "embed"
    /\ \E resp \in responses :
           /\ resp = "ok" \/ faults < maxFaults
           /\ faults' = Charge(resp = "ok")
           /\ LET r == Noted([run EXCEPT !.embedCalls = @ + 1,
                                         !.responses = Append(@, resp)],
                             resp = "ok") IN
              CASE resp = "ok" ->
                     /\ run' = [r EXCEPT !.pc = "insert"]
                     /\ timers' = timers
                [] Status429(resp) /\ RetryAllowed(run.retryCount) ->
                     /\ run' = [r EXCEPT !.pc = "retryWait",
                                         !.delays = Append(@, RetryDelay(resp, run.retryCount))]
                     /\ timers' = timers \cup
                            {[call |-> RetryTimer,
                              due |-> now + RetryDelay(resp, run.retryCount)]}
                [] OTHER ->
                     /\ run' = ChunkError(r)
                     /\ timers' = timers
    /\ UNCHANGED <<now, rl, calls, admitLog, lastCall, retryVars, store, totalChunks, prev, other>>

\* The retry delay is over: return generateEmbedding(text, retryCount + 1)
RetryWaitEnds ==
    /\ run.pc = "retryWait"
    /\ \E tm \in timers :
           /\ tm.call = RetryTimer
           /\ tm.due <= now
           /\ timers' = timers \ {tm}
    /\ run' = [run EXCEPT !.pc = "token", !.retryCount = @ + 1]
    /\ UNCHANGED <<now, rl, calls, admitLog, lastCall, retryVars, storeVars>>

InsertRecordUnique(st, i) == IF st[i] = 0 THEN [st EXCEPT ![i] = 1] ELSE st

\* supabase.from('documents').insert([{ content, embedding, metadata }]): one more
\* record of chunk index i, whatever the table holds already.
InsertRecord(st, i) == [st EXCEPT ![i] = @ + 1]

\* The insert of chunk i: processedCount++ and a progress event, or `throw error`.
Insert(oks) ==
    /\ run.pc = "insert"
    /\ \E ok \in Outcomes(oks) :
           /\ store' = IF ok THEN InsertRecord(store, run.i) ELSE store
           /\ run' = IF ok
                     THEN LET r == [run EXCEPT !.committed = @ \cup {run.i},
                                               !.processedCount = @ + 1]
                          IN  LoopTest([r EXCEPT !.events = Append(@, Event(r)),
                                                 !.i = @ + 1])
                     ELSE ChunkError(Noted(run, ok))
           /\ faults' = Charge(ok)
    /\ UNCHANGED <<limiterVars, retryVars, totalChunks, prev, other>>

\* The final count: isComplete = finalCount === totalChunks (count is null on a store
\* error).
Verify(oks) ==
    /\ run.pc = "verify"
    /\ \E ok \in Outcomes(oks) :
           /\ LET finalCount == IF ok THEN CountRecords(store) ELSE -1
              IN  run' = Noted([run EXCEPT !.pc = "done", !.countOk = ok,
                                           !.result = IF finalCount = totalChunks
                                                      THEN "true" ELSE "false"],
                               ok)
           /\ faults' = Charge(ok)
    /\ UNCHANGED <<limiterVars, retryVars, store, totalChunks, prev, other>>

\* The page is closed or reloaded, at any step of a run or after it: the module state
\* (the limiter, its timers, the run) is gone and built anew; the store stays.
Reload ==
    /\ run.pc # "idle"
    /\ now' = 0
    /\ rl' = NewRateLimiter(0)
    /\ timers' = {}
    /\ calls' = << >>
    /\ admitLog' = << >>
    /\ lastCall' = NoCall
    /\ run' = IdleRun
    /\ prev' = [finished |-> run.pc = "done",
                allOk |-> run.pc = "done" /\ run.skipped = {},
                attempted |-> Cardinality(run.attempted)]
    /\ UNCHANGED <<retryVars, store, totalChunks, faults, other>>

\* The for loop's test of the second page.
OtherLoopTest(o) ==
    IF o.i < totalChunks THEN [o EXCEPT !.pc = "exists"] ELSE [o EXCEPT !.pc = "done"]

\* A second page (another tab, another browser) calls processTextFile on the same
\* table and the same file: its lookup of the highest stored index, answered.
OtherLookup ==
    /\ other.pc = "idle"
    /\ LET lastProcessedIndex == CheckExistingDocuments(store, TRUE) IN
       other' = OtherLoopTest([other EXCEPT !.lastProcessedIndex = lastProcessedIndex,
                                            !.i = lastProcessedIndex + 1])
    /\ UNCHANGED <<limiterVars, retryVars, store, totalChunks, run, faults, prev>>

\* The second page's existence check of chunk i: `continue` on a record, and
\* otherwise the embedding is requested (with the page's own limiter).
OtherExistenceCheck ==
    /\ other.pc = "exists"
    /\ other' = IF ExistingChunk(store, other.i, TRUE)
                THEN OtherLoopTest([other EXCEPT !.i = @ + 1])
                ELSE [other EXCEPT !.pc = "insert"]
    /\ UNCHANGED <<limiterVars, retryVars, store, totalChunks, run, faults, prev>>

\* The second page's insert of chunk i, once its embedding has arrived.
OtherInsert ==
    /\ other.pc = "insert"
    /\ store' = InsertRecord(store, other.i)
    /\ other' = OtherLoopTest([other EXCEPT !.committed = @ \cup {other.i},
                                           !.i = @ + 1])
    /\ UNCHANGED <<limiterVars, retryVars, totalChunks, run, faults, prev>>

vars == <<now, rl, timers, calls, admitLog, lastCall, rt, store, totalChunks, run, faults, prev,
         other>>

LimiterNext ==
    \/ ChatCall(MaxCalls)
    \/ TimeoutFire
    \/ Tick

\* The page has just been loaded: the module-level RateLimiter is constructed and no
\* call has been made.
Init ==
    /\ LimiterInit
    /\ RetryInit
    /\ PipeInit

SpecLimiter == Init /\ [][LimiterNext]_vars

SpecRetry == Init /\ [][RetryNext]_vars

StoreAnswers == BOOLEAN
Responses == {"ok", "429", "error"}

\* Runs of processTextFile over page loads, with a store, a file server and an
\* embedding provider that may fail, and the query path calling the shared limiter.
PipelineNext ==
    \/ StartRun
    \/ Lookup(StoreAnswers)
    \/ Fetch(StoreAnswers)
    \/ ExistenceCheck(StoreAnswers)
    \/ AcquireToken
    \/ Embed(Responses, MaxFaults)
    \/ RetryWaitEnds
    \/ Insert(StoreAnswers)
    \/ Verify(StoreAnswers)
    \/ Reload
    \/ ChatCall(MaxChatCalls)
    \/ TimeoutFire
    \/ Tick

SpecPipeline == Init /\ [][PipelineNext]_vars

\* One run from the empty store, with a store, a file server and a provider that
\* always succeed and no other caller of the limiter.
FreshNext ==
    \/ StartRun
    \/ Lookup({TRUE})
    \/ Fetch({TRUE})
    \/ ExistenceCheck({TRUE})
    \/ AcquireToken
    \/ Embed({"ok"}, MaxFaults)
    \/ Insert({TRUE})
    \/ Verify({TRUE})
    \/ TimeoutFire
    \/ Tick

\* The event loop runs whatever is ready: a step that stays possible is taken.
SpecFresh == Init /\ [][FreshNext]_vars /\ WF_vars(FreshNext)

\* Two pages run processTextFile against the same table, from the empty store, with
\* a store, a file server and a provider that always answer.
TwoDriversNext ==
    \/ StartRun
    \/ Lookup({TRUE})
    \/ Fetch({TRUE})
    \/ ExistenceCheck({TRUE})
    \/ AcquireToken
    \/ Embed({"ok"}, MaxFaults)
    \/ Insert({TRUE})
    \/ Verify({TRUE})
    \/ OtherLookup
    \/ OtherExistenceCheck
    \/ OtherInsert
    \/ TimeoutFire
    \/ Tick

SpecTwoDrivers == Init /\ [][TwoDriversNext]_vars

\* The provider's answers, with a rate-limit answer that suggests a wait.
HintedResponses == Responses \cup {"429h"}

\* One run from the empty store in which only the embedding provider fails.
EmbedNext ==
    \/ StartRun
    \/ Lookup({TRUE})
    \/ Fetch({TRUE})
    \/ ExistenceCheck({TRUE})
    \/ AcquireToken
    \/ Embed(HintedResponses, MaxProviderFaults)
    \/ RetryWaitEnds
    \/ Insert({TRUE})
    \/ Verify({TRUE})
    \/ TimeoutFire
    \/ Tick

SpecEmbed == Init /\ [][EmbedNext]_vars

\* The two retry loops: the run of processTextFile with generateEmbedding's retry,
\* and, once the run is over, the query path's calls of ChatManager.withRetry.
BackoffNext ==
    \/ StartRun
    \/ Lookup({TRUE})
    \/ Fetch({TRUE})
    \/ ExistenceCheck({TRUE})
    \/ AcquireToken
    \/ Embed(HintedResponses, MaxFaults)
    \/ RetryWaitEnds
    \/ Insert({TRUE})
    \/ Verify({TRUE})
    \/ TimeoutFire
    \/ Tick
    \/ (run.pc = "done" /\ RetryNext)

SpecBackoff == Init /\ [][BackoffNext]_vars

\* Runs of processTextFile over page loads, with a store, a file server and a
\* provider that may fail, and no other caller of the limiter.
ResumeNext ==
    \/ StartRun
    \/ Lookup(StoreAnswers)
    \/ Fetch(StoreAnswers)
    \/ ExistenceCheck(StoreAnswers)
    \/ AcquireToken
    \/ Embed(Responses, MaxFaults)
    \/ RetryWaitEnds
    \/ Insert(StoreAnswers)
    \/ Verify(StoreAnswers)
    \/ Reload
    \/ TimeoutFire
    \/ Tick

SpecResume == Init /\ [][ResumeNext]_vars

\* One run from the empty store in which the existence check, the embedding call and
\* the insert of a chunk may fail, and nothing else does.
ChunkFaultNext ==
    \/ StartRun
    \/ Lookup({TRUE})
    \/ Fetch({TRUE})
    \/ ExistenceCheck(StoreAnswers)
    \/ AcquireToken
    \/ Embed(Responses, MaxFaults)
    \/ RetryWaitEnds
    \/ Insert(StoreAnswers)
    \/ Verify({TRUE})
    \/ TimeoutFire
    \/ Tick

\* The event loop runs whatever is ready: a step that stays possible is taken.
SpecChunkFaults == Init /\ [][ChunkFaultNext]_vars /\ WF_vars(ChunkFaultNext)

\* One run from the empty store with a provider that may fail, while the query path
\* calls the same limiter.
AdmissionNext ==
    \/ StartRun
    \/ Lookup({TRUE})
    \/ Fetch({TRUE})
    \/ ExistenceCheck({TRUE})
    \/ AcquireToken
    \/ Embed(Responses, MaxFaults)
    \/ RetryWaitEnds
    \/ Insert({TRUE})
    \/ Verify({TRUE})
    \/ ChatCall(MaxChatCalls)
    \/ TimeoutFire
    \/ Tick

SpecAdmission == Init /\ [][AdmissionNext]_vars

\* Runs of processTextFile over page loads with a store that may fail and a provider
\* that may fail more often.
VerdictNext ==
    \/ StartRun
    \/ Lookup(StoreAnswers)
    \/ Fetch({TRUE})
    \/ ExistenceCheck(StoreAnswers)
    \/ AcquireToken
    \/ Embed(Responses, MaxProviderFaults)
    \/ RetryWaitEnds
    \/ Insert(StoreAnswers)
    \/ Verify(StoreAnswers)
    \/ Reload
    \/ TimeoutFire
    \/ Tick

SpecVerdict == Init /\ [][VerdictNext]_vars

\* Page loads: initialize() and the runs of processTextFile it starts, with a store,
\* a file server and a provider that may fail.
InitializeNext ==
    \/ Initialize(StoreAnswers)
    \/ Lookup(StoreAnswers)
    \/ Fetch(StoreAnswers)
    \/ ExistenceCheck(StoreAnswers)
    \/ AcquireToken
    \/ Embed(Responses, MaxFaults)
    \/ RetryWaitEnds
    \/ Insert(StoreAnswers)
    \/ Verify(StoreAnswers)
    \/ Reload
    \/ TimeoutFire
    \/ Tick

SpecInitialize == Init /\ [][InitializeNext]_vars

(* ------------------------------------------------- claims on the limiter *)

Suspended(c) == calls[c].state = "suspended"
TookToken(c) == calls[c].state \in {"admitted", "released"}

\* C5 (as claimed): a suspended call of waitForToken resolves at the latest one full
\* window (timeWindowMs) after it was made, also when no other call follows.
BoundedWait ==
    \A c \in DOMAIN calls : Suspended(c) => now <= calls[c].at + timeWindowMs

\* The admissions inside the window of length timeWindowMs that starts at time a.
AdmittedIn(a) ==
    {k \in DOMAIN admitLog : admitLog[k].at >= a /\ admitLog[k].at < a + timeWindowMs}

\* C6 (as claimed): in every interval of length timeWindowMs at most maxRequests calls
\* are admitted by consuming a token.
TokenBucketBound ==
    \A k \in DOMAIN admitLog : Cardinality(AdmittedIn(admitLog[k].at)) <= maxRequests

FifoAdmission ==
    /\ \A j, k \in DOMAIN admitLog : j < k => admitLog[j].call < admitLog[k].call
    /\ \A c, d \in DOMAIN calls : (c < d /\ Suspended(c)) => ~TookToken(d)

\* Two suspended callers were released by the refill that a third call triggered, and
\* that third call was admitted after them.
FifoAdmissionWitness ==
    \E c, d, e \in DOMAIN calls :
        /\ c < d /\ d < e
        /\ calls[c].state = "released" /\ calls[d].state = "released"
        /\ calls[c].at < calls[e].at
        /\ calls[e].state = "admitted"
        /\ \E j \in DOMAIN admitLog :
               /\ j + 2 <= Len(admitLog)
               /\ admitLog[j].call = c /\ admitLog[j + 1].call = d
               /\ admitLog[j + 2].call = e /\ admitLog[j].at = calls[e].at

(* ------------------------------------------------- claims on withRetry *)

\* A rate-limit error: HTTP 429, or 'Rate limit' in the message.
QuotaError(e) == ~e.ok /\ (e.status = 429 \/ e.rateText)
OtherError(e) == ~e.ok /\ ~QuotaError(e)

\* C9: withRetry invokes the operation at most maxRetries times, one invocation at a
\* time; it returns the result of the first invocation that succeeds; and when all
\* maxRetries invocations fail with a rate-limit error it throws the error object of
\* the last invocation.
RetryBoundLastError ==
    /\ Len(rt.invoked) <= rt.maxRetries
    /\ rt.inflight \in {0, 1}
    /\ rt.inflight = 1 <=> rt.pc = "awaiting"
    /\ \A k \in DOMAIN rt.invoked :
           rt.invoked[k].ok =>
               /\ k = Len(rt.invoked)
               /\ rt.pc = "returned"
               /\ rt.outcome = rt.invoked[k]
    /\ rt.pc = "returned" => rt.outcome.ok /\ rt.outcome.n = Len(rt.invoked)
    /\ ( /\ rt.pc = "thrown"
         /\ rt.maxRetries > 0
         /\ Len(rt.invoked) = rt.maxRetries
         /\ \A k \in DOMAIN rt.invoked : QuotaError(rt.invoked[k]) )
       => rt.outcome = rt.invoked[rt.maxRetries]

\* withRetry(operation, 3) has thrown the third rate-limit error after three
\* rate-limited invocations.
RetryBoundLastErrorWitness ==
    /\ rt.pc = "thrown"
    /\ rt.maxRetries = 3
    /\ Len(rt.invoked) = 3
    /\ \A k \in DOMAIN rt.invoked : QuotaError(rt.invoked[k])
    /\ rt.outcome = rt.invoked[3]
    /\ rt.outcome.n = 3

\* C10: when an invocation fails with an error that is not a rate-limit error,
\* withRetry makes no further invocation and no delay, and throws that same error at
\* once.
OnlyQuotaRetried ==
    \A k \in DOMAIN rt.invoked :
        OtherError(rt.invoked[k]) =>
            /\ k = Len(rt.invoked)
            /\ rt.pc = "thrown"
            /\ rt.outcome = rt.invoked[k]
            /\ rt.inflight = 0
            /\ Len(rt.delays) = k - 1

\* The second invocation failed with an error that is not a rate-limit error, after a
\* rate-limited first one, with an attempt left.
OnlyQuotaRetriedWitness ==
    /\ rt.maxRetries = 3
    /\ Len(rt.invoked) = 2
    /\ QuotaError(rt.invoked[1])
    /\ OtherError(rt.invoked[2])
    /\ rt.pc = "thrown"

(* --------------------------------------------- claims on processTextFile *)

\* C1 (as claimed): with a single ingestion driver, after any number of interrupted and
\* restarted runs the store holds at most one record for every chunk index.
NoDuplicateCommits ==
    \A j \in Chunks : store[j] <= 1

\* The loop of the run is over.
LoopOver == run.pc \in {"verify", "done"}

\* C2 (as claimed): an index skipped because its processing failed is not committed in
\* that run, and every later run attempts it as long as it has no record (an index
\* below totalChunks has no record only when a run skipped it or no run reached it),
\* also when a higher index was committed in the meantime; the later run is taken
\* without any failure of its own.
SkippedStaysEligible ==
    /\ run.skipped \cap run.committed = {}
    /\ (LoopOver /\ ~run.faulty) =>
           \A j \in 0..(totalChunks - 1) : store[j] = 0 => j \in run.attempted

\* C3 (as claimed): a run started with last committed index k commits only indices
\* above k; and a run without failures made right after a finished run in which at
\* least one chunk was processed and every chunk succeeded makes no embedding call,
\* commits nothing and returns complete = true.
IdempotentResumption ==
    /\ \A j \in run.committed : j > run.startMax
    /\ ( /\ run.pc = "done" /\ ~run.faulty
         /\ prev.finished /\ prev.allOk /\ prev.attempted > 0 )
       => (run.embedCalls = 0 /\ run.committed = {} /\ run.result = "true")

\* C4 (as claimed): a run from the empty store, with a store and a provider that always
\* succeed and no other caller of the limiter, terminates having committed every index
\* 0 .. totalChunks-1 exactly once, and returns complete = true.
FreshRunCompletes ==
    <>( /\ run.pc = "done"
        /\ run.result = "true"
        /\ \A j \in Chunks : store[j] = (IF j < totalChunks THEN 1 ELSE 0) )

(* ----------------------------------------------- claims on the retry loops *)

\* The wait the provider suggested with a response, in ms (-1: none).
SuggestedWait(resp) == IF resp = "429h" THEN 7 * 1000 ELSE -1

\* The delays of withRetry: the suggested wait of the error when it carries one, and
\* initialDelay * 2^i after the failure of attempt i otherwise.
WithRetryBackoff ==
    \A k \in DOMAIN rt.delays :
        rt.delays[k] = IF rt.invoked[k].hint >= 0
                       THEN rt.invoked[k].hint * 1000
                       ELSE initialDelay * (2 ^ (k - 1))

\* C11 (as claimed): after a rate-limited failure of attempt i the delay before the next
\* attempt is the provider-suggested wait when there is one and the base delay times
\* 2^i otherwise, in ChatManager.withRetry and in generateEmbedding's retry.
BackoffRule ==
    /\ WithRetryBackoff
    /\ \A k \in DOMAIN run.delays :
           run.delays[k] = IF SuggestedWait(run.responses[k]) >= 0
                           THEN SuggestedWait(run.responses[k])
                           ELSE RATE_LIMIT_RETRY_DELAY * (2 ^ (k - 1))

\* C11 (amended): ChatManager.withRetry waits the provider-suggested time when the
\* error carries one and initialDelay * 2^i after attempt i otherwise; the retry of
\* generateEmbedding waits RATE_LIMIT_RETRY_DELAY before every retry, whatever the
\* attempt's number and whatever wait the provider suggested.
BackoffPerLoop ==
    /\ WithRetryBackoff
    /\ Len(run.delays) <= Len(run.responses)
    /\ \A k \in DOMAIN run.delays :
           /\ Status429(run.responses[k])
           /\ run.delays[k] = RATE_LIMIT_RETRY_DELAY

\* generateEmbedding has waited 20 s twice, after a rate-limit answer that suggested
\* 7 s and after a second one, and withRetry has waited the suggested 7 s after its
\* first attempt and initialDelay * 2 after its second.
BackoffPerLoopWitness ==
    /\ run.pc = "done"
    /\ Len(run.responses) = 3
    /\ run.responses[1] = "429h" /\ run.responses[2] = "429"
    /\ run.delays = <<RATE_LIMIT_RETRY_DELAY, RATE_LIMIT_RETRY_DELAY>>
    /\ Len(rt.invoked) >= 2
    /\ rt.invoked[1].hint = 7 /\ rt.invoked[2].hint = -1
    /\ rt.delays = <<7000, 2 * initialDelay>>

\* The first m responses of the provider for the chunk were rate-limit answers.
AllQuota(rs, m) == m <= Len(rs) /\ \A k \in 1..m : Status429(rs[k])

\* The run is inside generateEmbedding for its chunk.
InEmbedding == run.pc \in {"token", "waiting", "embed", "retryWait"}

\* C12 (as claimed): when the embedding call for chunk i is rate-limited on 3 attempts
\* in a row, no further embedding call is made for chunk i in this run, i is not
\* committed, processTextFile goes on to i+1 and the final count check returns
\* complete = false.
ExhaustedRetriesSkip ==
    AllQuota(run.responses, MAX_RETRIES) =>
        /\ Len(run.responses) = MAX_RETRIES
        /\ ~InEmbedding
        /\ run.pc # "insert"
        /\ run.chunk \notin run.committed
        /\ run.i = run.chunk + 1
        /\ run.pc = "done" => run.result = "false"

\* C13: when the embedding call for a chunk is rate-limited on its first n attempts,
\* n < 3, the chunk is not given up: the next attempt follows; and when that attempt
\* succeeds it is the last call for the chunk (n+1 calls in all), followed by the one
\* insert that commits the chunk.
RetryThenSuccess ==
    LET rs == run.responses
        n == Len(rs)
    IN  /\ (n >= 1 /\ n < MAX_RETRIES /\ AllQuota(rs, n)) =>
               /\ InEmbedding
               /\ run.i = run.chunk
               /\ run.chunk \notin run.skipped \cup run.committed
               /\ run.retryCount = IF run.pc = "retryWait" THEN n - 1 ELSE n
        /\ \A k \in DOMAIN rs : rs[k] = "ok" => k = n
        /\ (n >= 1 /\ n <= MAX_RETRIES /\ rs[n] = "ok" /\ AllQuota(rs, n - 1)) =>
               \/ /\ run.pc = "insert"
                  /\ run.i = run.chunk
                  /\ store[run.chunk] = 0
               \/ /\ run.pc \in {"exists", "verify", "done"}
                  /\ run.i = run.chunk + 1
                  /\ run.chunk \in run.committed
                  /\ run.chunk \notin run.skipped
                  /\ store[run.chunk] = 1

\* The provider answered the calls for a chunk with two rate-limit answers and then
\* the embedding: three calls, and the chunk has its one record.
RetryThenSuccessWitness ==
    /\ run.responses = <<"429", "429", "ok">>
    /\ run.chunk \in run.committed
    /\ store[run.chunk] = 1
    /\ run.i = run.chunk + 1

(* ------------------------------------------- claims on the failures of a run *)

\* The indices the loop of the run goes through.
LoopIndices == (run.lastProcessedIndex + 1)..(totalChunks - 1)

\* C14 (as claimed): a failure of the existence check, the embedding call or the insert
\* of a chunk never makes processTextFile fail: every index from the start index to
\* totalChunks-1 is still attempted and the run reaches the final count check.
FailureIsolation ==
    /\ [](run.pc # "failed")
    /\ run.faulty ~> (run.pc = "done" /\ run.attempted = LoopIndices)

\* C15 (as claimed): when the initial progress lookup fails, processTextFile fails
\* towards its caller and no chunk is embedded or committed in that run.
FatalLookupFailure ==
    ~run.lookupOk =>
        /\ run.pc \in {"fetch", "failed"}
        /\ run.attempted = {}
        /\ run.embedCalls = 0
        /\ run.committed = {}

\* C16 (as claimed): when the existence check of index i fails, i is skipped in this
\* run: no embedding call and no insert is made for i, and the run goes on with i+1.
FailedCheckSkips ==
    (run.chunk >= 0 /\ ~run.checkOk) =>
        /\ run.responses = << >>
        /\ ~InEmbedding
        /\ run.pc # "insert"
        /\ run.chunk \notin run.committed
        /\ run.i = run.chunk + 1

\* C17 (as claimed): when the document cannot be read or its text is empty (it splits
\* into no chunk), processTextFile fails before any chunk work, and returns no verdict.
FatalInput ==
    /\ run.pc = "failed" =>
           /\ run.attempted = {}
           /\ run.embedCalls = 0
           /\ run.committed = {}
           /\ run.result = "none"
    /\ (totalChunks = 0 /\ run.pc \notin {"idle", "lookup", "fetch"}) =>
           /\ run.pc = "failed"
           /\ run.result = "none"

\* The records of the documents table, as (chunk index, copy) pairs.
Records == UNION {{<<j, k>> : k \in 1..store[j]} : j \in Chunks}

\* C18 (as claimed): once every index has been attempted processTextFile never ends in
\* failure: it returns a boolean that is true exactly when the number of records in
\* the store equals totalChunks.
CountVerdict ==
    /\ run.pc = "failed" => run.events = << >>
    /\ run.pc = "done" =>
           /\ run.result \in {"true", "false"}
           /\ run.result = "true" <=> Cardinality(Records) = totalChunks

\* C18 (amended): once every index has been attempted processTextFile never ends in
\* failure: it returns a boolean that is true exactly when the count query succeeds
\* and the number of records in the store equals totalChunks; when the count query
\* fails it returns false.
CountVerdictWhenAnswered ==
    /\ run.pc = "failed" => run.events = << >> /\ run.attempted = {}
    /\ run.pc = "done" =>
           /\ run.result \in {"true", "false"}
           /\ run.result = "true" <=>
                  (run.countOk /\ Cardinality(Records) = totalChunks)

\* A run has committed chunks of a document of at least two chunks and has returned
\* false because the count query failed, with every chunk recorded exactly once.
CountVerdictWhenAnsweredWitness ==
    /\ run.pc = "done"
    /\ ~run.countOk
    /\ run.result = "false"
    /\ totalChunks >= 2
    /\ \A j \in Chunks : store[j] = (IF j < totalChunks THEN 1 ELSE 0)
    /\ run.committed # {}

SeparateLimiters ==
    [][ /\ Len(calls') > Len(calls) => rl' = rl
        /\ (run.pc = "token" /\ run'.pc # "token") => calls' = calls ]_vars

(* ------------------------------------------- claims on the order of a run *)

\* The waitForToken call of generateEmbedding is suspended in the limiter's queue.
EmbedQueued == Wrapper(EmbedCall) \in Range(rl.queue)

\* C22: in processTextFile every call to the embedding provider is preceded by its own
\* completed waitForToken: generateEmbedding reaches the provider call only by a step
\* that takes a token for it (at once, or as a queued call released by a refill), the
\* provider is called only from there, once, and while the call is suspended in the
\* queue no provider call is made.
AdmissionBeforeCall ==
    /\ [](EmbedQueued <=> run.pc = "waiting")
    /\ [][ /\ (run'.pc = "embed" /\ run.pc # "embed") =>
                  \/ /\ run.pc = "token"
                     /\ WaitForToken(rl, now, EmbedCall).admitted
                     /\ rl' = WaitForToken(rl, now, EmbedCall).lim
                  \/ /\ run.pc = "waiting"
                     /\ EmbedQueued /\ ~EmbedQueued'
           /\ (run'.embedCalls # run.embedCalls /\ run'.pc # "idle") =>
                  /\ run.pc = "embed" /\ run'.pc # "embed"
                  /\ run'.embedCalls = run.embedCalls + 1
           /\ (run.pc = "embed" /\ run'.pc \notin {"embed", "idle"}) =>
                  run'.embedCalls = run.embedCalls + 1 ]_vars

\* generateEmbedding is about to make its fourth provider call, a retry, after its
\* waitForToken was suspended and then released by a refill that a call of the query
\* path triggered.
AdmissionBeforeCallWitness ==
    /\ run.pc = "embed"
    /\ run.embedCalls = maxRequests
    /\ run.retryCount >= 1
    /\ Len(calls) >= 1
    /\ calls[Len(calls)].at = now
    /\ rl.lastRefill = now
    /\ now >= timeWindowMs
    /\ rl.tokens < maxRequests - 1

\* C23 (as claimed): after each index of the loop resolves, committed, found present
\* or skipped after a failure, one processingUpdate notification is emitted before
\* the next index is started: with the first one, the run has emitted one
\* notification more than the indices it has resolved.
NotificationPerIndex ==
    (run.events # << >> /\ run.pc # "failed") =>
        Len(run.events) = 1 + (run.i - (run.lastProcessedIndex + 1))

\* C24 (as claimed): when the store's last committed index is k >= 0 at the start of a
\* run, the first notification is {current: k+1, total: totalChunks, resuming: true}
\* and every notification has resuming = true; when the store is empty the first has
\* current = 0 and every notification has resuming = false.
ResumedStartEvent ==
    run.events # << >> =>
        /\ run.events[1].current = run.startMax + 1
        /\ run.events[1].total = totalChunks
        /\ \A k \in DOMAIN run.events : run.events[k].resuming = (run.startMax >= 0)

\* The states of the run in which it works on chunk run.i.
InChunk == run.pc \in {"token", "waiting", "embed", "retryWait", "insert"}

\* C25: within one run the indices are attempted in strictly ascending order, the
\* inserts of the run are made in strictly ascending index order, and the existence
\* check, the embedding and the insert of an index start only after every index
\* attempted before it has resolved: the run works on one index at a time.
AscendingOneAtATime ==
    /\ [] /\ \A j \in run.attempted : j <= run.i
          /\ run.i \in run.attempted <=> InChunk
          /\ run.committed \subseteq run.attempted
          /\ \A j \in run.committed : j < run.i
    /\ [][ /\ store' # store =>
                  /\ run.pc = "insert"
                  /\ store' = [store EXCEPT ![run.i] = @ + 1]
                  /\ run'.committed = run.committed \cup {run.i}
                  /\ \A j \in run.committed : j < run.i
           /\ (run.pc = "exists" /\ run'.pc \notin {"exists", "idle"}) =>
                  /\ run.i \notin run.attempted
                  /\ \A j \in run.attempted : j < run.i
                  /\ run'.attempted = run.attempted \cup {run.i}
           /\ (run'.attempted # run.attempted /\ run'.pc # "idle") =>
                  run.pc = "exists" ]_vars

\* A run has ended after committing index 0, skipping index 1 after a failure and
\* committing index 2.
AscendingOneAtATimeWitness ==
    /\ run.pc = "done"
    /\ {0, 2} \subseteq run.committed
    /\ 1 \in run.skipped
    /\ run.attempted = 0..(totalChunks - 1)

\* C26: in every reachable state of the RateLimiter 0 <= tokens <= maxRequests.
TokenBounds ==
    rl.tokens \in 0..maxRequests

\* A waitForToken call has refilled the empty bucket to maxRequests, the refill has
\* released the queued calls, the caller has taken the last token and none is left.
TokenBoundsWitness ==
    /\ lastCall.before = 0
    /\ lastCall.refilled = maxRequests
    /\ lastCall.queued = maxRequests - 1
    /\ ~lastCall.suspended
    /\ rl.tokens = 0

(* ----------------------------------------- claims on the verdict of a run *)

\* C27 (as claimed): initialize announces that all documents are processed and skips
\* processTextFile only when every chunk index 0 .. expectedChunks-1 has a record.
ReadyMeansComplete ==
    run.pc = "ready" => \A j \in 0..(totalChunks - 1) : store[j] >= 1

\* C28 (as claimed): whenever processTextFile returns complete = true the store holds
\* exactly one record for every chunk index 0 .. totalChunks-1 and no other record,
\* after any sequence of earlier runs with failed existence checks, embeddings or
\* inserts.
VerdictSound ==
    (run.pc = "done" /\ run.result = "true") =>
        \A j \in Chunks : store[j] = (IF j < totalChunks THEN 1 ELSE 0)

\* The times the run took the 'already exists, skipping' branch.
ExistingSkips ==
    run.processedCount - (run.lastProcessedIndex + 1) - Cardinality(run.committed)

\* C29: in a run of processTextFile with no concurrent writer whose progress lookup
\* the store answers, the existence check finds no record for any index the loop
\* visits: the loop starts above the largest index that has a record, and the
\* 'already exists, skipping' branch is never taken.
ExistingBranchUnreachable ==
    (run.lookupOk /\ run.events # << >>) =>
        /\ \A j \in Chunks : j > run.lastProcessedIndex /\ j >= run.i => store[j] = 0
        /\ run.pc = "exists" => ~ExistingChunk(store, run.i, TRUE)
        /\ ExistingSkips = 0

\* A resumed run whose lookup was answered has gone through its loop, over more than
\* one index, from a store in which an index has two records.
ExistingBranchUnreachableWitness ==
    /\ run.pc = "done"
    /\ run.lookupOk
    /\ run.lastProcessedIndex >= 0
    /\ Cardinality(run.attempted) >= 2
    /\ \E j \in Chunks : store[j] >= 2

(* ------------------------------------------- claims on withRetry's delays *)

\* C30 (as claimed): withRetry waits only before a further attempt; after the last
\* permitted attempt has failed with a rate-limit error it fails without another
\* delay: a call that makes n attempts performs exactly n-1 delays.
DelaysBetweenAttempts ==
    /\ rt.pc = "delay" => Len(rt.invoked) < rt.maxRetries
    /\ (rt.pc \in {"returned", "thrown"} /\ Len(rt.invoked) >= 1) =>
           Len(rt.delays) = Len(rt.invoked) - 1

(* ------------------------------------------------ claims on concurrent runs *)

\* The number of the two pages' runs that have inserted chunk index j.
Inserters(j) ==
    (IF j \in run.committed THEN 1 ELSE 0) + (IF j \in other.committed THEN 1 ELSE 0)

\* C21: the existence check and the insert of an index are separate steps with no
\* uniqueness constraint between them: a page that has passed the check for index i
\* inserts its record also when the other page has committed i since, so that the
\* table holds one record of i per page that inserted it, and two when both pages
\* passed the check before either committed.
CheckThenInsertRace ==
    /\ \A j \in Chunks : store[j] = Inserters(j)
    /\ (other.pc = "insert" /\ store[other.i] > 0) => other.i \in run.committed
    /\ (run.pc \in {"token", "waiting", "embed", "insert"} /\ store[run.i] > 0)
           => run.i \in other.committed

\* Both pages passed the existence check of an index while the table held no record
\* of it, and the table now holds two records of that index.
CheckThenInsertRaceWitness ==
    \E j \in Chunks :
        /\ j \in run.committed
        /\ j \in other.committed
        /\ store[j] = 2

(* ------------------------------------------- claims on the limiter's queue *)

\* C31: between calls of the RateLimiter a waiting caller means that no token is
\* left: a non-empty queue implies tokens = 0, and a waitForToken call that takes a
\* token at once leaves no earlier caller in the queue.
NoTokenWhileWaiting ==
    /\ [](Len(rl.queue) > 0 => rl.tokens = 0)
    /\ [][ (Len(calls') = Len(calls) + 1 /\ calls'[Len(calls')].state = "admitted")
               => rl'.queue = << >> ]_vars

\* A caller arrived some time after the last refill, before the window had elapsed,
\* while an earlier caller was waiting, and was queued behind it.
NoTokenWhileWaitingWitness ==
    /\ lastCall.suspended
    /\ lastCall.queued >= 1
    /\ lastCall.elapsed > 0
    /\ lastCall.refilled = 0
    /\ Len(rl.queue) = lastCall.queued + 1
    /\ rl.tokens = 0

====
